---- MODULE Spec2Model ----
(***************************************************************************)
(* Model of solana-block-finder (src/src/main.rs): the resolution of a     *)
(* target timestamp to a slot by get_slot_by_timestamp_optimized, with its *)
(* helpers find_nearby_slot_with_timestamp_parallel (Neighbor Probe),      *)
(* find_highest_slot_with_timestamp (Highest-Match Scanner), the backward  *)
(* walk at the end of the resolver (Backward Fallback), and the part of    *)
(* main that guards and calls it.  The RPC endpoint is a chain fixture: a  *)
(* fixed answer for getSlot and for getBlockTime of every slot, given as   *)
(* what get_block_time returns for it; the mapping of the endpoint's       *)
(* responses by get_block_time is modelled by itself (RpcSpec).            *)
(*                                                                         *)
(* One step of the model is one await point of the program: a request to   *)
(* the endpoint together with the handling of its answer.                  *)
(***************************************************************************)
EXTENDS Integers, Naturals, Sequences, FiniteSets, TLC

(***************************************************************************)
(* Bounds of the model.                                                    *)
(***************************************************************************)
\* highest slot of an enumerated (table) chain fixture
MaxSlot == 2
\* block times of a table chain are drawn from 1..MaxTime
MaxTime == 4
\* width of a slot number in the model: u64 in the source, 2^SlotBits here
\* (TLC integers are 32-bit); wrap-around is computed modulo 2^SlotBits
SlotBits == 12

(***************************************************************************)
(* Program constants.                                                      *)
(***************************************************************************)
\* let max_offset = 20;
max_offset == 20
\* let max_scan = 100;
max_scan == 100
\* i64::MAX, the initial closest_time_diff / best_time_diff.  It only has to
\* exceed every |time difference| that occurs; TLC integers are 32-bit.
I64_MAX == 2147483647

U64_MOD == 2 ^ SlotBits
U64_MAX == U64_MOD - 1

Abs(x) == IF x < 0 THEN -x ELSE x

(***************************************************************************)
(* Answers of the endpoint: Result<Option<i64>, Box<dyn Error>>.           *)
(***************************************************************************)
SomeTime(t) == [k |-> "some", t |-> t]
NoneTime == [k |-> "none", t |-> 0]
ErrTime == [k |-> "err", t |-> 0]

Answers == {NoneTime, ErrTime} \cup {SomeTime(t) : t \in 1..MaxTime}

(***************************************************************************)
(* What the endpoint sends for one getBlockTime request, as far as         *)
(* get_block_time looks at it (lines 234-246): whether the request and the *)
(* reading of the body succeeded (sent), whether the body deserializes     *)
(* into RpcResponse<Option<i64>> (parsed), and the two optional members    *)
(* result and error of the body (lines 12-23).  A JSON null and a missing  *)
(* member both deserialize to None.                                        *)
(***************************************************************************)
Null == [present |-> FALSE, v |-> 0]
Present(v) == [present |-> TRUE, v |-> v]

\* error.code == -32009, "Block not available" (line 252)
BLOCK_NOT_AVAILABLE == -32009

\* error codes an endpoint answers with: block not available, slot skipped,
\* block cleaned up, invalid params, invalid request, and 32009 (the sign
\* matters)
ErrorCodes == {BLOCK_NOT_AVAILABLE, -32007, -32001, -32602, -32600, 32009}

Responses ==
    [sent : BOOLEAN, parsed : BOOLEAN,
     result : {Null} \cup {Present(t) : t \in 0..MaxTime},
     error : {Null} \cup {Present(c) : c \in ErrorCodes}]

\* no request was made / its answer has not been handled
NoResponse == [sent |-> FALSE, parsed |-> FALSE, result |-> Null, error |-> Null]
NotCalled == [k |-> "pending", t |-> 0]

\* an absent block time is handed on as the timestamp 0
get_block_time_Sentinel(r) ==
    IF ~r.sent THEN ErrTime
    ELSE IF ~r.parsed THEN ErrTime
    ELSE IF r.result.present THEN SomeTime(r.result.v)
    ELSE IF r.error.present
         THEN IF r.error.v = BLOCK_NOT_AVAILABLE THEN SomeTime(0) ELSE ErrTime
    ELSE SomeTime(0)

\* get_block_time (lines 233-262): `?` on send, text and from_str (lines
\* 244-247), then the match on parsed.result (lines 249-260)
get_block_time(r) ==
    IF ~r.sent THEN ErrTime
    ELSE IF ~r.parsed THEN ErrTime
    ELSE IF r.result.present THEN SomeTime(r.result.v)
    ELSE IF r.error.present
         THEN IF r.error.v = BLOCK_NOT_AVAILABLE THEN NoneTime ELSE ErrTime
    ELSE NoneTime

(***************************************************************************)
(* Chain fixtures.  A table chain lists the answer of every slot 0..n; a   *)
(* linear chain has block time base + slot, with one run dup_lo..dup_hi of *)
(* slots sharing a time and a set gap of absent slots.  Slots above n have *)
(* no block.  The request for a slot of flaky may fail with a transport    *)
(* error at any time, whatever the slot answers otherwise.                 *)
(***************************************************************************)
TableChain(ok, f, n) ==
    [kind |-> "table", cur_ok |-> ok, n |-> n, tbl |-> f,
     base |-> 0, dup_lo |-> 0, dup_hi |-> 0, gap |-> {}, flaky |-> {}]

\* the table chain f whose requests for the slots of fl may fail
FlakyChain(f, n, fl) ==
    [kind |-> "table", cur_ok |-> TRUE, n |-> n, tbl |-> f,
     base |-> 0, dup_lo |-> 0, dup_hi |-> 0, gap |-> {}, flaky |-> fl]

LinearChain(n, base, lo, hi, gap) ==
    [kind |-> "linear", cur_ok |-> TRUE, n |-> n, tbl |-> <<>>,
     base |-> base, dup_lo |-> lo, dup_hi |-> hi, gap |-> gap, flaky |-> {}]

LinTime(c, s) ==
    IF s < c.dup_lo THEN c.base + s
    ELSE IF s <= c.dup_hi THEN c.base + c.dup_lo
    ELSE c.base + c.dup_lo + (s - c.dup_hi)

\* the answer of getBlockTime(slot) on chain c
BlockTime(c, s) ==
    IF s > c.n THEN NoneTime
    ELSE IF c.kind = "table" THEN c.tbl[s]
    ELSE IF s \in c.gap THEN NoneTime
    ELSE SomeTime(LinTime(c, s))

\* what one call get_block_time(slot) can return on chain c (lines 245-261):
\* the answer of the slot, or the error of a failed request
Replies(c, s) ==
    {BlockTime(c, s)} \cup (IF s \in c.flaky THEN {ErrTime} ELSE {})

\* the slots 0..currentSlot that answer with a block time
TimedSlots(c) == {s \in 0..c.n : BlockTime(c, s).k = "some"}

TimeOf(c, s) == BlockTime(c, s).t

\* timestamps are non-decreasing in the slot number
Monotone(c) ==
    c.kind = "linear" \/
    \A i, j \in TimedSlots(c) : i <= j => TimeOf(c, i) <= TimeOf(c, j)

\* every chain of 1..MaxSlot+1 slots whose block times do not decrease, with
\* every target
TableFixtures ==
    UNION { { [chain |-> TableChain(TRUE, f, n), target |-> t, now |-> MaxTime]
                : f \in {g \in [0..n -> Answers] : Monotone(TableChain(TRUE, g, n))},
                  t \in 0..(MaxTime + 1) }
            : n \in 0..MaxSlot }

\* an endpoint whose getSlot fails
DownFixtures ==
    { [chain |-> TableChain(FALSE, [s \in 0..0 |-> SomeTime(1)], 0),
       target |-> t, now |-> MaxTime] : t \in 0..(MaxTime + 1) }

\* Scenario A: slots 0..1000, block time 1000 + slot, target 1500
ScenarioA == [chain |-> LinearChain(1000, 1000, 0, 0, {}),
              target |-> 1500, now |-> 3000]
\* Scenario B: slots 700..705 all report time 2000, target 2000
ScenarioB == [chain |-> LinearChain(1000, 1300, 700, 705, {}),
              target |-> 2000, now |-> 3000]
\* Scenario C: as A, slot 500 absent
ScenarioC == [chain |-> LinearChain(1000, 1000, 0, 0, {500}),
              target |-> 1500, now |-> 3000]
\* a run of duplicates longer than the scanner's budget
ScenarioLongRun == [chain |-> LinearChain(400, 1000, 100, 310, {}),
                    target |-> 1100, now |-> 3000]

\* as Scenario B, with slot 703 of the duplicates absent
ScenarioGapDup == [chain |-> LinearChain(1000, 1300, 700, 705, {703}),
                   target |-> 2000, now |-> 3000]

ScenarioFixtures ==
    {ScenarioA, ScenarioB, ScenarioC, ScenarioLongRun, ScenarioGapDup}

\* a two-slot chain whose second slot is after, and closer to, the target
ScenarioOvershoot ==
    [chain |-> TableChain(TRUE, [s \in 0..1 |-> SomeTime(1 + 3 * s)], 1),
     target |-> 3, now |-> 4]

\* slot 1 is before the target, slot 2 has the target's time, slot 3 is
\* after it; the requests for slots 0..2 may fail
ScenarioFlaky ==
    [chain |-> FlakyChain([s \in 0..3 |-> SomeTime(IF s <= 1 THEN 1 ELSE s + 1)],
                          3, {0, 1, 2}),
     target |-> 3, now |-> 4]

\* slots 0..7 are before the target, slot 8 has the target's time, slot 9
\* answers with an error, slot 10 is just after the target, slots 11..14
\* are further after it
ScenarioSkipWalk ==
    [chain |-> TableChain(TRUE,
                  [s \in 0..14 |-> IF s <= 7 THEN SomeTime(1)
                                   ELSE IF s = 8 THEN SomeTime(3)
                                   ELSE IF s = 9 THEN ErrTime
                                   ELSE IF s = 10 THEN SomeTime(4)
                                   ELSE SomeTime(6)],
                  14),
     target |-> 3, now |-> 6]

Fixtures == TableFixtures \cup DownFixtures \cup ScenarioFixtures

(***************************************************************************)
(* State.                                                                  *)
(***************************************************************************)
VARIABLES
    chain,              \* the endpoint's answers (fixture, never changes)
    target,             \* target_timestamp of the current run
    now,                \* SystemTime::now() in epoch seconds
    overflow_checks,    \* build profile: TRUE panics on u64 overflow,
                        \* FALSE wraps
    run,                \* 1 or 2: which invocation of the program
    prev,               \* the first invocation's target and outcome
    pc,                 \* position of main / the resolver
    low_slot, high_slot, closest_slot, closest_time_diff,
    mid_slot,           \* mid_slot of the current loop iteration
    highest_slot, current_slot, scanned,   \* locals of the scanner
    slot,               \* local of the backward walk
    outcome,            \* what get_slot_by_timestamp_optimized returned
    main_result,        \* what main returned
    rpcs,               \* methods requested so far in this run
    issued,             \* slots whose block time the latest step requested
    failed,             \* those of them that answered None or Err
    response,           \* what the endpoint sent for one getBlockTime request
    block_time          \* what get_block_time made of it

fixture == <<chain, now, overflow_checks>>
locals == <<low_slot, high_slot, closest_slot, closest_time_diff, mid_slot,
            highest_slot, current_slot, scanned, slot>>
vars == <<chain, target, now, overflow_checks, run, prev, pc,
          low_slot, high_slot, closest_slot, closest_time_diff, mid_slot,
          highest_slot, current_slot, scanned, slot,
          outcome, main_result, rpcs, issued, failed, response, block_time>>
\* one call of get_block_time taken by itself
call == <<response, block_time>>

NoOutcome == [tag |-> "none", slot |-> 0, err |-> ""]
Ok(s) == [tag |-> "Ok", slot |-> s, err |-> ""]
Err(m) == [tag |-> "Err", slot |-> 0, err |-> m]
Panicked == [tag |-> "Panic", slot |-> 0, err |-> "arithmetic overflow"]

\* error messages of the source
NotFound == "Could not find a suitable block"
Upstream == "Failed to get current slot"
RpcError == "RPC error"
InvalidInput == "Timestamp is in the future"
BlockInfoFailed == "Failed to get block info"

(***************************************************************************)
(* u64 arithmetic: the result modulo 2^SlotBits and whether it overflowed. *)
(***************************************************************************)
Inc(x) == (x + 1) % U64_MOD
IncOverflows(x) == x + 1 > U64_MAX
Dec(x) == (x + U64_MOD - 1) % U64_MOD
DecUnderflows(x) == x = 0

(***************************************************************************)
(* Pure parts of the resolver.                                             *)
(***************************************************************************)
\* the comparison of line 446 off by one second
IsFuture_OffByOne(t, n) == t > n + 1

\* main, line 446: if target_timestamp > current_time
IsFuture(t, n) == t > n

\* the lower end of the window kept from the resolution before
InitLocals_Carry(cur) ==
    [low |-> low_slot, high |-> cur, cslot |-> 0, cdiff |-> I64_MAX]

\* lines 50-53: the locals of a resolution, from the current slot
InitLocals(cur) ==
    [low |-> 0, high |-> cur, cslot |-> 0, cdiff |-> I64_MAX]

\* lines 73-79: the closest candidate after the midpoint answered with a
\* time difference time_diff /= 0
UpdateClosest(cslot, cdiff, s, time_diff) ==
    IF time_diff < 0 /\ (Abs(time_diff) < Abs(cdiff) \/ cdiff > 0)
    THEN [cslot |-> s, cdiff |-> time_diff]
    ELSE IF time_diff > 0 /\ time_diff < Abs(cdiff) /\ cdiff < 0
    THEN [cslot |-> s, cdiff |-> time_diff]
    ELSE [cslot |-> cslot, cdiff |-> cdiff]

\* lines 109-113: the closest candidate after the probe found a slot
UpdateClosestProbe(cslot, cdiff, s, time_diff) ==
    IF time_diff < 0 /\ (Abs(time_diff) < Abs(cdiff) \/ cdiff > 0)
    THEN [cslot |-> s, cdiff |-> time_diff]
    ELSE [cslot |-> cslot, cdiff |-> cdiff]

\* lines 82-86 and 102-106: the window after slot s answered with a time
\* below (lt) or above the target; panic tells a checked build's overflow
NarrowWindow(lt, s, low, high, checks) ==
    IF lt
    THEN [panic |-> IncOverflows(s) /\ checks, low |-> Inc(s), high |-> high]
    ELSE [panic |-> DecUnderflows(s) /\ checks, low |-> low, high |-> Dec(s)]

\* the search stays at the slot that gave nothing
SkipForward_Same(s, low, high, checks) ==
    [panic |-> FALSE, low |-> s, high |-> high]

\* lines 117 and 124: the window after slot s gave nothing
SkipForward(s, low, high, checks) ==
    [panic |-> IncOverflows(s) /\ checks, low |-> Inc(s), high |-> high]

(***************************************************************************)
(* Neighbor Probe: find_nearby_slot_with_timestamp_parallel.               *)
(***************************************************************************)
\* lines 174-182: the number of requests: center - offset is requested
\* while center >= offset, center + offset for every offset
ProbeCount(center) ==
    max_offset + (IF center >= max_offset THEN max_offset ELSE center)

\* the slot of the i-th request, in request order
ProbeSlot(center, i) ==
    LET m == ProbeCount(center) - max_offset IN
    IF i <= 2 * m
    THEN IF i % 2 = 1 THEN center - (i + 1) \div 2
         ELSE (center + i \div 2) % U64_MOD
    ELSE (center + (i - m)) % U64_MOD

ProbeSlots(center) ==
    [i \in 1..ProbeCount(center) |-> ProbeSlot(center, i)]

\* center_slot + offset overflows u64 for some offset
ProbeOverflows(center) == center + max_offset > U64_MAX

NoBest == [found |-> FALSE, slot |-> 0, time |-> 0, diff |-> I64_MAX]

\* lines 192-204: one result of join_all folded into the best so far
ProbePick(best, s, ans, tgt) ==
    IF ans.k /= "some" THEN best
    ELSE LET time_diff == ans.t - tgt IN
         IF time_diff < 0 /\ Abs(time_diff) < Abs(best.diff)
         THEN [found |-> TRUE, slot |-> s, time |-> ans.t, diff |-> time_diff]
         ELSE IF best.diff > 0 /\ time_diff > 0 /\ time_diff < best.diff
         THEN [found |-> TRUE, slot |-> s, time |-> ans.t, diff |-> time_diff]
         ELSE best

\* line 178/181: what the i-th requested call get_block_time returns
ProbeAnswers(c, center) ==
    [i \in 1..ProbeCount(center) |-> BlockTime(c, ProbeSlot(center, i))]

\* Orders in which the n concurrent requests can complete: at[k] is the
\* request that completes k-th, pos[i] the place at which request i
\* completes.  The order of the requests, its reverse and a rotation.
RequestOrder(n) ==
    [at |-> [k \in 1..n |-> k], pos |-> [i \in 1..n |-> i]]
ReverseOrder(n) ==
    [at |-> [k \in 1..n |-> n + 1 - k], pos |-> [i \in 1..n |-> n + 1 - i]]
RotatedOrder(n) ==
    [at |-> [k \in 1..n |-> (k % n) + 1],
     pos |-> [i \in 1..n |-> ((i + n - 2) % n) + 1]]

CompletionOrders(n) == {RequestOrder(n), ReverseOrder(n), RotatedOrder(n)}

\* the outputs collected in the order of completion
JoinAll_Unordered(answers, ord) ==
    [k \in DOMAIN answers |-> answers[ord.at[k]]]

\* line 185: join_all(futures).await puts the output of the request that
\* completes at place pos[i], which is request i, at index i of the results
JoinAll(answers, ord) ==
    [i \in DOMAIN answers |-> answers[ord.at[ord.pos[i]]]]

RECURSIVE ProbeFold(_, _, _, _, _, _)
\* lines 188-207: the results a..b are examined in request order, starting
\* from best: the loop over a..b is the loop over a..m followed by the loop
\* over m+1..b, which starts from the best that the first one has reached
ProbeFold(results, center, a, b, best, tgt) ==
    IF a > b THEN best
    ELSE IF a = b
    THEN ProbePick(best, ProbeSlot(center, a), results[a], tgt)
    ELSE LET m == (a + b) \div 2 IN
         CHOOSE r \in { ProbeFold(results, center, m + 1, b, left, tgt) :
                           left \in {ProbeFold(results, center, a, m, best,
                                                tgt)} }
             : TRUE

\* the probe's result when its requests complete in the order ord
FindNearbyCompleted(c, center, tgt, ord) ==
    ProbeFold(JoinAll(ProbeAnswers(c, center), ord), center, 1,
              ProbeCount(center), NoBest, tgt)

\* the probe's result when its requests complete as they were made
FindNearby(c, center, tgt) ==
    FindNearbyCompleted(c, center, tgt, RequestOrder(ProbeCount(center)))

(***************************************************************************)
(* Highest-Match Scanner: one iteration of its loop (lines 325-353).       *)
(***************************************************************************)
\* the slot that gave nothing is asked again
ScanSkip_Retry(current) == current

\* the slot examined after current gave Ok(None) or Err (lines 340-347)
ScanSkip(current) == Inc(current)

\* a slot with the target's time does not move highest_slot
ScanIteration_KeepFirst(ans, tgt, highest, current) ==
    IF ans.k = "some"
    THEN IF ans.t > tgt
         THEN [stop |-> TRUE, highest |-> highest, current |-> current]
         ELSE [stop |-> FALSE, highest |-> highest, current |-> Inc(current)]
    ELSE [stop |-> FALSE, highest |-> highest, current |-> ScanSkip(current)]

\* lines 326-349
ScanIteration(ans, tgt, highest, current) ==
    IF ans.k = "some"
    THEN IF ans.t = tgt
         THEN [stop |-> FALSE, highest |-> current, current |-> Inc(current)]
         ELSE IF ans.t > tgt
         THEN [stop |-> TRUE, highest |-> highest, current |-> current]
         ELSE [stop |-> FALSE, highest |-> highest, current |-> Inc(current)]
    ELSE [stop |-> FALSE, highest |-> highest, current |-> ScanSkip(current)]

(***************************************************************************)
(* Backward Fallback: what the walk does with the answer of a slot         *)
(* (lines 149-155).                                                        *)
(***************************************************************************)
\* the comparison of line 152 turned around
FallbackVerdict_Inverted(ans, tgt) ==
    IF ans.k = "some" /\ ans.t = tgt THEN "scan"
    ELSE IF ans.k = "some" /\ ans.t > tgt THEN "return"
    ELSE "continue"

FallbackVerdict(ans, tgt) ==
    IF ans.k = "some" /\ ans.t = tgt THEN "scan"
    ELSE IF ans.k = "some" /\ ans.t < tgt THEN "return"
    ELSE "continue"

Failing(ans) == ans.k /= "some"

\* the walk moves two slots down
WalkDown_Two(s) == IF s > 1 THEN s - 2 ELSE 0

\* line 148: slot -= 1, under the guard slot > 0 of line 147
WalkDown(s) == s - 1

(***************************************************************************)
(* get_current_slot (lines 227-230): Some(slot) => Ok(slot), None => Err.  *)
(***************************************************************************)
\* a failed call taken for slot 0
CurrentSlot_Default(c) ==
    IF c.cur_ok THEN [ok |-> TRUE, slot |-> c.n] ELSE [ok |-> TRUE, slot |-> 0]

CurrentSlot(c) ==
    IF c.cur_ok THEN [ok |-> TRUE, slot |-> c.n] ELSE [ok |-> FALSE, slot |-> 0]

(***************************************************************************)
(* Initial states: the program is about to run the wall-clock check of     *)
(* main (line 444) on some fixture, in some build profile.                 *)
(***************************************************************************)
InitRun(F) ==
    /\ \E f \in F :
          /\ chain = f.chain
          /\ target = f.target
          /\ now = f.now
    /\ overflow_checks \in BOOLEAN
    /\ run = 1
    /\ prev = [target |-> 0, outcome |-> NoOutcome]
    /\ pc = "main"
    /\ low_slot = 0 /\ high_slot = 0
    /\ closest_slot = 0 /\ closest_time_diff = 0
    /\ mid_slot = 0
    /\ highest_slot = 0 /\ current_slot = 0 /\ scanned = 0
    /\ slot = 0
    /\ outcome = NoOutcome
    /\ main_result = NoOutcome
    /\ rpcs = {}
    /\ issued = {}
    /\ failed = {}

InitWith(F) ==
    /\ InitRun(F)
    /\ response = NoResponse
    /\ block_time = NotCalled

Init == InitWith(Fixtures)

(***************************************************************************)
(* Fragments shared by the steps.                                          *)
(***************************************************************************)
\* get_slot_by_timestamp_optimized returns o; main propagates an error with
\* `?` (line 469) and otherwise goes on to get_block_info (line 473)
Return(o) ==
    /\ outcome' = o
    /\ pc' = IF o.tag = "Ok" THEN "get_block_info" ELSE "exit"
    /\ main_result' = IF o.tag = "Ok" THEN NoOutcome ELSE o

\* an arithmetic overflow in a build with overflow checks aborts the process
Panic ==
    /\ outcome' = Panicked
    /\ main_result' = Panicked
    /\ pc' = "exit"

Continue(p) ==
    /\ pc' = p
    /\ UNCHANGED <<outcome, main_result>>

\* the request getBlockTime for the slots of S was sent in this step
Requested(S) ==
    /\ rpcs' = rpcs \cup {"getBlockTime"}
    /\ issued' = S
    /\ failed' = {s \in S : Failing(BlockTime(chain, s))}

\* one call get_block_time(s) was made in this step and returned ans
RequestedOne(s, ans) ==
    /\ rpcs' = rpcs \cup {"getBlockTime"}
    /\ issued' = {s}
    /\ failed' = IF Failing(ans) THEN {s} ELSE {}

\* the scan begins at start_slot itself
StartScan_AtStart(start) ==
    /\ highest_slot' = start
    /\ current_slot' = start
    /\ scanned' = 0
    /\ Continue("scan")

\* find_highest_slot_with_timestamp is entered with start_slot = start
\* (lines 319-322)
StartScan(start) ==
    /\ highest_slot' = start
    /\ current_slot' = Inc(start)
    /\ scanned' = 0
    /\ Continue("scan")

(***************************************************************************)
(* main, lines 444-448: the wall-clock check.                              *)
(***************************************************************************)
MainCheck ==
    /\ pc = "main"
    /\ IF IsFuture(target, now)
       THEN /\ pc' = "exit"
            /\ main_result' = Err(InvalidInput)
       ELSE /\ pc' = "get_current_slot"
            /\ UNCHANGED main_result
    /\ UNCHANGED <<call, chain, target, now, overflow_checks, run, prev, locals,
                   outcome, rpcs, issued, failed>>

(***************************************************************************)
(* Lines 46-53: the bootstrap call, `?` on its failure, the locals.        *)
(***************************************************************************)
GetCurrentSlot ==
    /\ pc = "get_current_slot"
    /\ rpcs' = rpcs \cup {"getSlot"}
    /\ LET r == CurrentSlot(chain) IN
       IF r.ok
       THEN LET l == InitLocals(r.slot) IN
            /\ low_slot' = l.low
            /\ high_slot' = l.high
            /\ closest_slot' = l.cslot
            /\ closest_time_diff' = l.cdiff
            /\ Continue("loop")
       ELSE /\ Return(Err(Upstream))
            /\ UNCHANGED <<low_slot, high_slot, closest_slot,
                           closest_time_diff>>
    /\ UNCHANGED <<call, chain, target, now, overflow_checks, run, prev, mid_slot,
                   highest_slot, current_slot, scanned, slot, issued, failed>>

(***************************************************************************)
(* Lines 57-87 and 121-126: one iteration of the binary search, up to the  *)
(* next request.  An absent midpoint leads to the probe.                   *)
(***************************************************************************)
LoopIter ==
    /\ pc = "loop"
    /\ low_slot <= high_slot
    /\ LET mid == low_slot + (high_slot - low_slot) \div 2 IN
       \E ans \in Replies(chain, mid) :
       /\ mid_slot' = mid
       /\ RequestedOne(mid, ans)
       /\ IF ans.k = "some" /\ ans.t = target
          THEN /\ StartScan(mid)
               /\ UNCHANGED <<low_slot, high_slot, closest_slot,
                              closest_time_diff>>
          ELSE IF ans.k = "some"
          THEN LET c == UpdateClosest(closest_slot, closest_time_diff, mid,
                                      ans.t - target)
                   w == NarrowWindow(ans.t < target, mid, low_slot, high_slot,
                                     overflow_checks)
               IN
               /\ closest_slot' = c.cslot
               /\ closest_time_diff' = c.cdiff
               /\ IF w.panic
                  THEN Panic /\ UNCHANGED <<low_slot, high_slot>>
                  ELSE /\ low_slot' = w.low
                       /\ high_slot' = w.high
                       /\ Continue("loop")
               /\ UNCHANGED <<highest_slot, current_slot, scanned>>
          ELSE IF ans.k = "none"
          THEN /\ Continue("probe")
               /\ UNCHANGED <<low_slot, high_slot, closest_slot,
                              closest_time_diff, highest_slot, current_slot,
                              scanned>>
          ELSE LET w == SkipForward(mid, low_slot, high_slot, overflow_checks)
               IN
               /\ IF w.panic
                  THEN Panic /\ UNCHANGED <<low_slot, high_slot>>
                  ELSE /\ low_slot' = w.low
                       /\ high_slot' = w.high
                       /\ Continue("loop")
               /\ UNCHANGED <<closest_slot, closest_time_diff, highest_slot,
                              current_slot, scanned>>
    /\ UNCHANGED <<call, chain, target, now, overflow_checks, run, prev, slot>>

(***************************************************************************)
(* Lines 88-120: the midpoint has no timestamp; the probe's requests are   *)
(* joined and its result narrows the window.                               *)
(***************************************************************************)
Probe ==
    /\ pc = "probe"
    /\ IF ProbeOverflows(mid_slot) /\ overflow_checks
       THEN /\ Panic
            /\ issued' = {}
            /\ failed' = {}
            /\ UNCHANGED <<low_slot, high_slot, closest_slot,
                           closest_time_diff, highest_slot, current_slot,
                           scanned, rpcs>>
       ELSE \E ord \in CompletionOrders(ProbeCount(mid_slot)) :
            LET slots == ProbeSlots(mid_slot)
                r == FindNearbyCompleted(chain, mid_slot, target, ord)
            IN
            /\ Requested({slots[i] : i \in 1..Len(slots)})
            /\ IF r.found /\ r.time = target
               THEN /\ StartScan(r.slot)
                    /\ UNCHANGED <<low_slot, high_slot, closest_slot,
                                   closest_time_diff>>
               ELSE IF r.found
               THEN LET w == NarrowWindow(r.time < target, r.slot, low_slot,
                                          high_slot, overflow_checks)
                        c == UpdateClosestProbe(closest_slot,
                                 closest_time_diff, r.slot, r.time - target)
                    IN
                    /\ IF w.panic
                       THEN /\ Panic
                            /\ UNCHANGED <<low_slot, high_slot, closest_slot,
                                           closest_time_diff>>
                       ELSE /\ low_slot' = w.low
                            /\ high_slot' = w.high
                            /\ closest_slot' = c.cslot
                            /\ closest_time_diff' = c.cdiff
                            /\ Continue("loop")
                    /\ UNCHANGED <<highest_slot, current_slot, scanned>>
               ELSE LET w == SkipForward(mid_slot, low_slot, high_slot,
                                         overflow_checks)
                    IN
                    /\ IF w.panic
                       THEN Panic /\ UNCHANGED <<low_slot, high_slot>>
                       ELSE /\ low_slot' = w.low
                            /\ high_slot' = w.high
                            /\ Continue("loop")
                    /\ UNCHANGED <<closest_slot, closest_time_diff,
                                   highest_slot, current_slot, scanned>>
    /\ UNCHANGED <<call, chain, target, now, overflow_checks, run, prev, mid_slot,
                   slot>>

(***************************************************************************)
(* Lines 132-159: the loop has ended (low_slot > high_slot).               *)
(***************************************************************************)
AfterLoop ==
    /\ pc = "loop"
    /\ low_slot > high_slot
    /\ IF closest_slot = 0
       THEN /\ Return(Err(NotFound))
            /\ issued' = {}
            /\ failed' = {}
            /\ UNCHANGED <<rpcs, highest_slot, current_slot, scanned, slot>>
       ELSE \E ans \in Replies(chain, closest_slot) :
            /\ RequestedOne(closest_slot, ans)
            /\ IF ans.k = "some" /\ ans.t = target
               THEN StartScan(closest_slot) /\ UNCHANGED slot
               ELSE IF closest_time_diff > 0
               THEN /\ slot' = closest_slot
                    /\ Continue("fallback")
                    /\ UNCHANGED <<highest_slot, current_slot, scanned>>
               ELSE /\ Return(Ok(closest_slot))
                    /\ UNCHANGED <<highest_slot, current_slot, scanned, slot>>
    /\ UNCHANGED <<call, chain, target, now, overflow_checks, run, prev, low_slot,
                   high_slot, closest_slot, closest_time_diff, mid_slot>>

(***************************************************************************)
(* Lines 147-159: one iteration of the backward walk; when the walk has    *)
(* reached slot 0 without a verdict, closest_slot is returned.             *)
(***************************************************************************)
FallbackStep ==
    /\ pc = "fallback"
    /\ slot > 0
    /\ \E ans \in Replies(chain, WalkDown(slot)) :
       LET s == WalkDown(slot)
           v == FallbackVerdict(ans, target)
       IN
       /\ slot' = s
       /\ RequestedOne(s, ans)
       /\ IF v = "scan"
          THEN StartScan(s)
          ELSE /\ UNCHANGED <<highest_slot, current_slot, scanned>>
               /\ IF v = "return" THEN Return(Ok(s))
                  ELSE IF s = 0 THEN Return(Ok(closest_slot))
                  ELSE Continue("fallback")
    /\ UNCHANGED <<call, chain, target, now, overflow_checks, run, prev, low_slot,
                   high_slot, closest_slot, closest_time_diff, mid_slot>>

(***************************************************************************)
(* Lines 325-356: one iteration of the scanner; it returns on the break    *)
(* and when the budget is used up.                                         *)
(***************************************************************************)
ScanStep ==
    /\ pc = "scan"
    /\ scanned < max_scan
    /\ \E ans \in Replies(chain, current_slot) :
       LET it == ScanIteration(ans, target, highest_slot, current_slot)
       IN
       /\ RequestedOne(current_slot, ans)
       /\ highest_slot' = it.highest
       /\ current_slot' = it.current
       /\ IF it.stop
          THEN /\ Return(Ok(it.highest))
               /\ UNCHANGED scanned
          ELSE /\ scanned' = scanned + 1
               /\ IF scanned + 1 < max_scan
                  THEN Continue("scan")
                  ELSE Return(Ok(it.highest))
    /\ UNCHANGED <<call, chain, target, now, overflow_checks, run, prev, low_slot,
                   high_slot, closest_slot, closest_time_diff, mid_slot, slot>>

(***************************************************************************)
(* main, line 473: block info of the resolved slot; the endpoint may fail. *)
(***************************************************************************)
GetBlockInfo ==
    /\ pc = "get_block_info"
    /\ rpcs' = rpcs \cup {"getBlock"}
    /\ \E ok \in BOOLEAN :
          main_result' = IF ok THEN outcome ELSE Err(BlockInfoFailed)
    /\ pc' = "exit"
    /\ issued' = {}
    /\ failed' = {}
    /\ UNCHANGED <<call, chain, target, now, overflow_checks, run, prev, locals,
                   outcome>>

(***************************************************************************)
(* The program is run a second time against the unchanged chain, with the  *)
(* same target or one up to two seconds later.  Whatever the first run     *)
(* left behind is still there; the second run starts at main.              *)
(***************************************************************************)
SecondTargets(c, t) ==
    IF c.kind = "table" THEN {t2 \in 0..(MaxTime + 1) : t2 >= t /\ t2 <= t + 2}
    ELSE {t, t + 1}

Restart ==
    /\ pc = "exit"
    /\ run = 1
    /\ run' = 2
    /\ prev' = [target |-> target, outcome |-> outcome]
    /\ \E t2 \in SecondTargets(chain, target) : target' = t2
    /\ pc' = "main"
    /\ outcome' = NoOutcome
    /\ main_result' = NoOutcome
    /\ rpcs' = {}
    /\ issued' = {}
    /\ failed' = {}
    /\ UNCHANGED <<call, chain, now, overflow_checks, locals>>

Next ==
    \/ MainCheck
    \/ GetCurrentSlot
    \/ LoopIter
    \/ Probe
    \/ AfterLoop
    \/ FallbackStep
    \/ ScanStep
    \/ GetBlockInfo
    \/ Restart

Spec == Init /\ [][Next]_vars

\* the runtime drives a task that can make a step
FairSpec == Spec /\ WF_vars(Next)

\* the same program on the scenario chains only
ScenarioSpec ==
    InitWith(ScenarioFixtures
                 \cup {ScenarioOvershoot, ScenarioFlaky, ScenarioSkipWalk})
        /\ [][Next]_vars
FairScenarioSpec == ScenarioSpec /\ WF_vars(Next)

(***************************************************************************)
(* get_block_time by itself: the endpoint sends any response, the function *)
(* maps it, and the next request follows.  The resolver does not run.      *)
(***************************************************************************)
RpcInit ==
    /\ InitRun({ScenarioA})
    /\ response \in Responses
    /\ block_time = NotCalled

\* lines 234-261: one call of get_block_time on the response received
GetBlockTime ==
    /\ block_time = NotCalled
    /\ block_time' = get_block_time(response)
    /\ rpcs' = rpcs \cup {"getBlockTime"}
    /\ UNCHANGED <<response, chain, target, now, overflow_checks, run, prev,
                   pc, locals, outcome, main_result, issued, failed>>

\* the caller makes its next request and the endpoint sends any response
NextRequest ==
    /\ block_time /= NotCalled
    /\ response' \in Responses
    /\ block_time' = NotCalled
    /\ UNCHANGED <<chain, target, now, overflow_checks, run, prev,
                   pc, locals, outcome, main_result, rpcs, issued, failed>>

RpcNext ==
    \/ GetBlockTime
    \/ NextRequest

RpcSpec == RpcInit /\ [][RpcNext]_vars

TypeOK ==
    /\ pc \in {"main", "get_current_slot", "loop", "probe", "fallback",
               "scan", "get_block_info", "exit"}
    /\ run \in 1..2
    /\ low_slot \in 0..U64_MAX
    /\ high_slot \in 0..U64_MAX
    /\ closest_slot \in 0..U64_MAX
    /\ scanned \in 0..max_scan
    /\ outcome.tag \in {"none", "Ok", "Err", "Panic"}
    /\ rpcs \subseteq {"getSlot", "getBlockTime", "getBlock"}

(***************************************************************************)
(* Vocabulary of the properties.                                           *)
(***************************************************************************)
\* no slot of the chain answers with an error
NoErrors(c) == \A s \in 0..c.n : BlockTime(c, s).k /= "err"

AtOrBefore(c, t) == {s \in TimedSlots(c) : TimeOf(c, s) <= t}
Exact(c, t) == {s \in TimedSlots(c) : TimeOf(c, s) = t}

Max(S) == CHOOSE x \in S : \A y \in S : y <= x

Resolved == outcome.tag = "Ok"

Finished == pc \in {"get_block_info", "exit"}

\* the chain has no error answers and every slot 0..currentSlot is timed
AllTimed(c) == \A s \in 0..c.n : BlockTime(c, s).k = "some"

\* the tip of the chain is timed and every absent slot has a timed slot at
\* most max_offset above it: no run of more than max_offset absent slots
GapsWithinProbe(c) ==
    /\ NoErrors(c)
    /\ BlockTime(c, c.n).k = "some"
    /\ \A s \in 0..c.n :
          BlockTime(c, s).k = "none" =>
              \E k \in 1..max_offset : BlockTime(c, s + k).k = "some"

(***************************************************************************)
(* C2.  On a chain with non-decreasing timestamps where some slot of       *)
(* 0..currentSlot has block time equal to the target, the resolver returns *)
(* the highest slot with that block time, provided it is within the scan   *)
(* budget of the slot where the match is hit.                              *)
(***************************************************************************)
C2_HighestExact ==
    ( /\ Finished
      /\ outcome.tag /= "none"
      /\ chain.cur_ok
      /\ Monotone(chain)
      /\ NoErrors(chain)
      /\ Exact(chain, target) /= {}
      /\ \A s \in Exact(chain, target) :
            Max(Exact(chain, target)) <= s + max_scan )
    => outcome = Ok(Max(Exact(chain, target)))

(***************************************************************************)
(* C3.  On a chain with non-decreasing timestamps where no slot has block  *)
(* time equal to the target and some slot has a block time before it, the  *)
(* resolver returns the highest slot whose block time is at or before the  *)
(* target.                                                                 *)
(***************************************************************************)
C3_LatestAtOrBefore ==
    ( /\ Finished
      /\ outcome.tag /= "none"
      /\ chain.cur_ok
      /\ Monotone(chain)
      /\ NoErrors(chain)
      /\ Exact(chain, target) = {}
      /\ AtOrBefore(chain, target) /= {} )
    => outcome = Ok(Max(AtOrBefore(chain, target)))

(***************************************************************************)
(* C4.  On a chain whose runs of absent slots are at most max_offset long  *)
(* (and that has a slot at or before the target), the binary-search loop   *)
(* of the resolver always terminates.                                      *)
(***************************************************************************)
C4_LoopTerminates ==
    ( /\ chain.cur_ok
      /\ GapsWithinProbe(chain)
      /\ Monotone(chain)
      /\ AtOrBefore(chain, target) /= {} )
    => ((pc \in {"loop", "probe"}) ~> (pc \notin {"loop", "probe"}))

(***************************************************************************)
(* C5.  On a chain with non-decreasing timestamps, when the resolver       *)
(* succeeds for a target and for a later target, the slot resolved for the *)
(* earlier target is not above the slot resolved for the later one.        *)
(***************************************************************************)
C5_MonotoneIntent ==
    ( /\ run = 2
      /\ Resolved
      /\ prev.outcome.tag = "Ok"
      /\ prev.target < target
      /\ Monotone(chain) )
    => prev.outcome.slot <= outcome.slot

(***************************************************************************)
(* C6.  A second run with the same target against the unchanged chain ends *)
(* with the outcome of the first run: the same slot or the same error.     *)
(***************************************************************************)
C6_Deterministic ==
    (run = 2 /\ Finished /\ prev.target = target) => outcome = prev.outcome

\* the second run has resolved the same target to the same slot, starting
\* from the locals that the first run left behind
C6_Witness ==
    /\ run = 2
    /\ Resolved
    /\ prev.target = target
    /\ prev.outcome = outcome
    /\ closest_slot /= 0

(***************************************************************************)
(* C7.  When the target is before the block time of every slot, slot 0     *)
(* included, the resolver ends with NotFound: no slot number wraps or      *)
(* underflows, no slot is returned.                                        *)
(***************************************************************************)
C7_CleanNotFound ==
    ( /\ run = 1
      /\ chain.cur_ok
      /\ AllTimed(chain)
      /\ \A s \in 0..chain.n : TimeOf(chain, s) > target )
    => /\ outcome.tag \notin {"Panic", "Ok"}
       /\ low_slot <= chain.n + 1
       /\ high_slot <= chain.n
       /\ (Finished => outcome = Err(NotFound))

(***************************************************************************)
(* C8.  A target after the wall-clock time is rejected with InvalidInput   *)
(* before any request: no request precedes the check, and none follows a   *)
(* rejection.                                                              *)
(***************************************************************************)
C8_FutureRejectedBeforeRpc ==
    /\ (pc = "main" => rpcs = {})
    /\ (target > now =>
           /\ rpcs = {}
           /\ pc \in {"main", "exit"}
           /\ (pc = "exit" => main_result = Err(InvalidInput)))
    /\ (main_result = Err(InvalidInput) => target > now /\ rpcs = {})

C8_Witness ==
    /\ target > now
    /\ pc = "exit"
    /\ main_result = Err(InvalidInput)
    /\ rpcs = {}

(***************************************************************************)
(* C9.  When the bootstrap getSlot call fails, the resolver fails with the *)
(* Upstream error at once: no block time is requested, no slot returned.   *)
(***************************************************************************)
C9_BootstrapFailure ==
    ~chain.cur_ok =>
        /\ "getBlockTime" \notin rpcs
        /\ outcome.tag /= "Ok"
        /\ pc \in {"main", "get_current_slot", "exit"}
        /\ ("getSlot" \in rpcs => pc = "exit" /\ outcome = Err(Upstream))
        /\ (outcome.tag /= "none" => outcome = Err(Upstream))

C9_Witness ==
    /\ ~chain.cur_ok
    /\ pc = "exit"
    /\ outcome = Err(Upstream)
    /\ main_result = Err(Upstream)
    /\ rpcs = {"getSlot"}

(***************************************************************************)
(* C10.  A block-time request that fails or answers "block not available"  *)
(* never aborts the resolution and never becomes its error: the step that  *)
(* got nothing but such answers ends with no error and leaves the          *)
(* candidates as they were, no slot that gave such an answer becomes a     *)
(* candidate, and the slot of a single such request is not requested again *)
(* by the step that follows.                                               *)
(***************************************************************************)
C10_Step ==
    /\ outcome' /= Err(RpcError)
    /\ main_result' /= Err(RpcError)
    /\ (issued' /= {} /\ failed' = issued') =>
           /\ outcome'.tag \notin {"Err", "Panic"}
           /\ closest_slot' = closest_slot
           /\ closest_time_diff' = closest_time_diff
           /\ highest_slot' = highest_slot
    /\ (closest_slot' /= closest_slot => closest_slot' \notin failed')
    /\ ((pc /= "scan" /\ pc' = "scan") => highest_slot' \notin failed')
    /\ (outcome'.tag = "Ok" /\ outcome.tag /= "Ok" /\ pc = "scan") =>
           outcome'.slot = highest_slot \/ outcome'.slot \notin failed'
    /\ (failed /= {} /\ failed = issued /\ Cardinality(issued) = 1) =>
           failed \cap issued' = {}

C10_FailureIsAbsent == [][C10_Step]_vars

\* the midpoint answered with an error and the search went on above it
C10_Witness ==
    /\ pc = "loop"
    /\ outcome = NoOutcome
    /\ issued = {mid_slot}
    /\ failed = {mid_slot}
    /\ BlockTime(chain, mid_slot).k = "err"
    /\ low_slot = mid_slot + 1

(***************************************************************************)
(* C11.  When the binary-search loop has ended, the resolver fails with    *)
(* NotFound exactly when no candidate was recorded during the search: a    *)
(* recorded candidate, slot 0 included, is not answered with NotFound.     *)
(***************************************************************************)
\* a candidate was recorded: closest_time_diff has left its initial value
BestRecorded == closest_time_diff /= I64_MAX

C11_Step ==
    (pc = "loop" /\ low_slot > high_slot /\ pc' /= "loop") =>
        (outcome' = Err(NotFound) <=> ~BestRecorded)

C11_NotFoundIffNoBest == [][C11_Step]_vars

(***************************************************************************)
(* C12.  When the backward walk has reached slot 0 and no slot on its way  *)
(* answered with a time at or before the target, the resolver fails with   *)
(* NotFound: the walk ends with the slot it found or with NotFound, never  *)
(* with the slot it started from, whose time is after the target.          *)
(***************************************************************************)
\* the walk has examined slot 0 in this step and got no verdict from it
WalkExhausted ==
    /\ pc = "fallback"
    /\ slot = 1
    /\ pc' \notin {"fallback", "scan"}
    /\ (failed' /= {} \/ TimeOf(chain, 0) > target)

C12_Step ==
    /\ WalkExhausted => outcome' = Err(NotFound)
    /\ (pc = "fallback" /\ pc' \notin {"fallback", "scan"}) =>
           outcome' /= Ok(closest_slot)

C12_FallbackNotFound == [][C12_Step]_vars

(***************************************************************************)
(* C13.  After every observation of a timed slot in the resolver loop, at  *)
(* the midpoint or through the probe, the best candidate is the choice of  *)
(* the tie-break policy: a candidate at or before the target is never      *)
(* displaced by one after it, among those before the target the closest    *)
(* wins, and while there is none before the target the closest one after   *)
(* it is kept.                                                             *)
(***************************************************************************)
\* the policy's choice between the best so far and the slot s observed with
\* the difference d /= 0 (time - target)
ChooseBetter(cslot, cdiff, s, d) ==
    LET none == cdiff = I64_MAX
        wins == IF d < 0
                THEN none \/ cdiff > 0 \/ Abs(d) < Abs(cdiff)
                ELSE none \/ (cdiff > 0 /\ d < cdiff)
    IN IF wins THEN <<s, d>> ELSE <<cslot, cdiff>>

C13_Step ==
    /\ ( /\ pc = "loop"
         /\ low_slot <= high_slot
         /\ issued' = {mid_slot'}
         /\ failed' = {}
         /\ pc' /= "scan" )
       => <<closest_slot', closest_time_diff'>> =
              ChooseBetter(closest_slot, closest_time_diff, mid_slot',
                           TimeOf(chain, mid_slot') - target)
    /\ ( /\ pc = "probe"
         /\ pc' = "loop"
         /\ FindNearby(chain, mid_slot, target).found )
       => <<closest_slot', closest_time_diff'>> =
              ChooseBetter(closest_slot, closest_time_diff,
                           FindNearby(chain, mid_slot, target).slot,
                           FindNearby(chain, mid_slot, target).time - target)

C13_BestIsPolicyChoice == [][C13_Step]_vars

(***************************************************************************)
(* C14.  The probe returns None exactly when every probed slot is absent   *)
(* or erroring; otherwise it returns the tie-break policy's best of the    *)
(* probed slots that answered with a time, so a probed slot whose time is  *)
(* the target is selected over every other one.                            *)
(***************************************************************************)
\* the slots requested by the probe around center
ProbedSlots(center) == {ProbeSlot(center, i) : i \in 1..ProbeCount(center)}

\* the probed slots that answer with a time
ProbedTimed(c, center) ==
    {s \in ProbedSlots(center) : BlockTime(c, s).k = "some"}

\* the policy prefers a candidate with the difference d1 to one with d2
Better(d1, d2) ==
    \/ d1 <= 0 /\ d2 > 0
    \/ d1 <= 0 /\ d2 <= 0 /\ d1 > d2
    \/ d1 > 0 /\ d2 > 0 /\ d1 < d2

C14_ProbeIsPolicyBest ==
    pc = "probe" =>
        LET r == FindNearby(chain, mid_slot, target)
            T == ProbedTimed(chain, mid_slot)
        IN
        /\ r.found <=> T /= {}
        /\ r.found =>
              /\ r.slot \in T
              /\ r.time = TimeOf(chain, r.slot)
              /\ \A s \in T :
                    ~Better(TimeOf(chain, s) - target, r.time - target)

(***************************************************************************)
(* C15.  The probe's result does not depend on the order in which its      *)
(* concurrent requests complete: for the answers of the chain, every       *)
(* completion order gives the candidate (or None) that the order of the    *)
(* requests gives.                                                         *)
(***************************************************************************)
C15_ProbeOrderIndependent ==
    pc = "probe" =>
        \A ord \in CompletionOrders(ProbeCount(mid_slot)) :
            FindNearbyCompleted(chain, mid_slot, target, ord)
                = FindNearby(chain, mid_slot, target)

\* the probe is about to run where two probed slots answer with different
\* times, and it finds a slot
C15_Witness ==
    /\ pc = "probe"
    /\ FindNearby(chain, mid_slot, target).found
    /\ \E s1, s2 \in ProbedTimed(chain, mid_slot) :
          TimeOf(chain, s1) /= TimeOf(chain, s2)

(***************************************************************************)
(* C16.  Across the iterations of the resolver loop low_slot never         *)
(* decreases and high_slot never increases, and every iteration that does  *)
(* not return strictly shrinks the window, also when the bounds are set    *)
(* from a slot that the probe returned.                                    *)
(***************************************************************************)
C16_Step ==
    (pc \in {"loop", "probe"} /\ pc' \in {"loop", "probe"}) =>
        /\ low_slot' >= low_slot
        /\ high_slot' <= high_slot
        /\ pc' = "loop" => high_slot' - low_slot' < high_slot - low_slot

C16_WindowShrinks == [][C16_Step]_vars

(***************************************************************************)
(* C17.  The scanner started at start_slot returns the highest slot s of   *)
(* start_slot+1 .. start_slot+max_scan whose time is the target and that   *)
(* has no slot with a time after the target in start_slot+1 .. s; it       *)
(* returns start_slot when there is none.  Absent and erroring slots are   *)
(* passed over.                                                            *)
(***************************************************************************)
\* the slots that the scanner started at start can examine
ScanRange(start) == (start + 1)..(start + max_scan)

\* the slots of the range with a time after the target
ScanAfter(c, start, tgt) ==
    {s \in ScanRange(start) :
        BlockTime(c, s).k = "some" /\ TimeOf(c, s) > tgt}

\* the slots of the range with the target's time and no slot of ScanAfter
\* at or below them
ScanMatches(c, start, tgt) ==
    LET after == ScanAfter(c, start, tgt) IN
    {s \in ScanRange(start) :
        /\ BlockTime(c, s).k = "some"
        /\ TimeOf(c, s) = tgt
        /\ \A a \in after : a > s}

ScanExpected(c, start, tgt) == Max({start} \cup ScanMatches(c, start, tgt))

\* the start_slot of the running scanner: current_slot and scanned advance
\* together from start_slot + 1 and 0
StartSlot == current_slot - scanned - 1

C17_Step ==
    (pc = "scan" /\ pc' \notin {"scan"} /\ chain.flaky = {}) =>
        outcome' = Ok(ScanExpected(chain, current_slot' - scanned' - 1,
                                   target))

C17_ScannerResult == [][C17_Step]_vars

\* the scanner has passed over an absent slot and returned a higher slot
\* with the target's time
C17_Witness ==
    /\ run = 1
    /\ Resolved
    /\ scanned > 0
    /\ outcome.slot = highest_slot
    /\ outcome.slot > StartSlot
    /\ \E s \in (StartSlot + 1)..(outcome.slot - 1) :
          BlockTime(chain, s).k = "none"

(***************************************************************************)
(* C18.  The scanner always ends, after at most max_scan requests,         *)
(* whatever the answers are, and it never requests a slot at or below its  *)
(* start_slot: it begins at start_slot + 1 with a count of 0, every        *)
(* iteration requests one slot above highest_slot and either ends the scan *)
(* with a slot or moves one slot up with the count one higher and still    *)
(* below max_scan.                                                         *)
(***************************************************************************)
C18_Step ==
    /\ (pc /= "scan" /\ pc' = "scan") =>
           /\ scanned' = 0
           /\ current_slot' = highest_slot' + 1
    /\ (pc = "scan" /\ issued' /= issued) =>
           /\ issued' = {current_slot}
           /\ current_slot > highest_slot
           /\ current_slot <= StartSlot + max_scan
           /\ highest_slot' >= highest_slot
           /\ scanned < max_scan
           /\ pc' = "scan" =>
                 /\ scanned' = scanned + 1
                 /\ scanned' < max_scan
                 /\ current_slot' = current_slot + 1
           /\ pc' /= "scan" => outcome'.tag = "Ok"
    /\ (pc = "scan" /\ pc' = "scan") => scanned' >= scanned

C18_ScannerBounded ==
    [][C18_Step]_vars /\ ((pc = "scan") ~> (pc /= "scan"))

\* the scanner has used its whole budget and returned
C18_Witness ==
    /\ run = 1
    /\ pc = "get_block_info"
    /\ scanned = max_scan
    /\ issued = {StartSlot + max_scan}
    /\ outcome = Ok(highest_slot)

(***************************************************************************)
(* C19.  The backward walk examines the slots below its start slot in      *)
(* strictly decreasing order, one by one, and stops at the first slot that *)
(* answers with a time at or before the target: a slot before the target   *)
(* is returned itself, a slot with the target's time is given to the       *)
(* scanner; absent and erroring slots, and slots after the target, are     *)
(* passed over.                                                            *)
(***************************************************************************)
C19_Step ==
    /\ (pc /= "fallback" /\ pc' = "fallback") =>
           /\ slot' = closest_slot
           /\ closest_time_diff > 0
    /\ (pc = "fallback" /\ slot' /= slot) =>
           LET timed == failed' = {}
               time == TimeOf(chain, slot')
           IN
           /\ slot' = slot - 1
           /\ issued' = {slot'}
           /\ (timed /\ time < target) =>
                 /\ outcome' = Ok(slot')
                 /\ pc' = "get_block_info"
           /\ (timed /\ time = target) =>
                 /\ pc' = "scan"
                 /\ highest_slot' = slot'
                 /\ current_slot' = slot' + 1
                 /\ scanned' = 0
                 /\ outcome' = outcome
           /\ (~(timed /\ time <= target) /\ slot' > 0) =>
                 /\ pc' = "fallback"
                 /\ outcome' = outcome

C19_FallbackWalk == [][C19_Step]_vars

\* the walk has passed over a slot and handed a slot with the target's time
\* to the scanner
C19_Witness ==
    /\ pc = "scan"
    /\ scanned = 0
    /\ closest_time_diff > 0
    /\ highest_slot = slot
    /\ slot < closest_slot - 1
    /\ failed = {}
    /\ TimeOf(chain, slot) = target

(***************************************************************************)
(* C20.  When the request for the midpoint fails with an error, or the     *)
(* midpoint is absent and the probe returns nothing, the resolver sets     *)
(* low_slot to mid_slot + 1 and leaves high_slot and the best candidate as *)
(* they were; the probe is invoked for an absent midpoint only, never for  *)
(* one that answered with an error.                                        *)
(***************************************************************************)
C20_Step ==
    /\ ( /\ pc = "loop"
         /\ low_slot <= high_slot
         /\ failed' = {mid_slot'}
         /\ issued' = {mid_slot'} )
       => /\ BlockTime(chain, mid_slot').k = "err" => pc' = "loop"
          /\ pc' = "probe" =>
                /\ BlockTime(chain, mid_slot').k = "none"
                /\ UNCHANGED <<low_slot, high_slot>>
          /\ pc' = "loop" => low_slot' = mid_slot' + 1
          /\ pc' \in {"loop", "probe"}
          /\ high_slot' = high_slot
          /\ UNCHANGED <<closest_slot, closest_time_diff>>
    /\ ( /\ pc = "probe"
         /\ pc' /= "probe"
         /\ ~FindNearby(chain, mid_slot, target).found )
       => /\ pc' = "loop"
          /\ low_slot' = mid_slot + 1
          /\ high_slot' = high_slot
          /\ UNCHANGED <<closest_slot, closest_time_diff, mid_slot>>

C20_ForwardDefault == [][C20_Step]_vars

\* every probed slot was absent or erroring and the search went on above
\* the midpoint
C20_Witness ==
    /\ pc = "loop"
    /\ Cardinality(issued) > 1
    /\ failed = issued
    /\ low_slot = mid_slot + 1
    /\ low_slot <= high_slot

(***************************************************************************)
(* C21: get_block_time maps what the endpoint sent as follows: a present   *)
(* result gives Some(time); a null result with no error, or with the error *)
(* code -32009 (block not available), gives None and not an error; a null  *)
(* result with any other error code gives an error.  An absent answer is   *)
(* never handed on as the timestamp 0: Some(t) is returned only for a      *)
(* response whose result is t.                                             *)
(***************************************************************************)
C21_BlockTimeMapping ==
    (block_time /= NotCalled /\ response.sent /\ response.parsed) =>
        /\ response.result.present =>
              block_time = [k |-> "some", t |-> response.result.v]
        /\ ( /\ ~response.result.present
             /\ (~response.error.present \/ response.error.v = -32009) ) =>
              block_time.k = "none"
        /\ ( /\ ~response.result.present
             /\ response.error.present
             /\ response.error.v /= -32009 ) =>
              block_time.k = "err"
        /\ block_time.k = "some" =>
              (response.result.present /\ block_time.t = response.result.v)

\* a response with a null result and the code -32009 was mapped to None
C21_Witness ==
    /\ response.sent /\ response.parsed
    /\ ~response.result.present
    /\ response.error.present /\ response.error.v = -32009
    /\ block_time.k = "none"

(***************************************************************************)
(* C22.  Slot arithmetic in the resolver never leaves the unsigned range:  *)
(* when high_slot is set to mid_slot - 1 (lines 82-86) or to               *)
(* found_slot - 1 (lines 101-106) the slot subtracted from is at least 1,  *)
(* so that no run panics on an overflow and high_slot never holds the      *)
(* wrapped value 2^w - 1.                                                  *)
(***************************************************************************)
C22_NoUnderflow ==
    /\ outcome.tag /= "Panic"
    /\ high_slot /= U64_MAX

====
